---- MODULE Spec2Model ----
(***************************************************************************)
(* Model of the automotive-part price calculator:                          *)
(*   src/price_calculator.py   single-scenario app                         *)
(*   src/price_calculator2.py  two-scenario comparison app                 *)
(* Both apps keep their history in the file calculation_history.json.      *)
(*                                                                         *)
(* Numbers.  Python computes the prices in binary floating point.  The     *)
(* model computes them as exact fractions <<n, d>> (d > 0, lowest terms),  *)
(* so every statement below about a price is a statement about the         *)
(* formula the code evaluates, not about the rounding of a float.  A       *)
(* division by zero raises ZeroDivisionError in Python; the model keeps    *)
(* that outcome apart from a returned value.                               *)
(***************************************************************************)
EXTENDS Integers, Sequences, FiniteSets

VARIABLES
    \* ---- one call of calculate_results and of create_analysis_df ----
    pc,          \* "start" | "calculated" | "analysed" | "raised" | "idle"
    inputs,      \* the inputs dict handed to calculate_results
    outcome,     \* what calculate_results did: returned results, or raised
    analysis,    \* the rows of create_analysis_df: <<CR, BL, financing, total>>
    \* ---- the history file and the wall clock ----
    file,        \* calculation_history.json: [exists, text]
    clock,       \* datetime.now(), in seconds
    \* ---- single-scenario app (price_calculator.py) ----
    form1,       \* the sidebar widgets' values
    session1,    \* st.session_state: [has, inputs, results]
    page1,       \* what the last script run rendered
    \* ---- comparison app (price_calculator2.py) ----
    form2,       \* <<inputs of scenario 1, inputs of scenario 2>>
    session2,    \* st.session_state: [has, scenario1, scenario2]
    page2,       \* what the last script run rendered
    \* ---- concurrent writers of the history file ----
    wpc,         \* writer -> "idle" | "loaded" | "done"
    whistory,    \* writer -> the local variable history of save_calculation
    wargs,       \* writer -> the (inputs, results) it saves
    wstamp,      \* writer -> the timestamp it put in its record
    overlapped,  \* some writer loaded the file while another held a loaded copy
    \* ---- the user event that triggered the last script run ----
    event

vars == <<pc, inputs, outcome, analysis, file, clock, form1, session1, page1,
          form2, session2, page2, wpc, whistory, wargs, wstamp, overlapped,
          event>>

calcVars == <<pc, inputs, outcome, analysis>>
appVars == <<form1, session1, page1, form2, session2, page2>>
raceVars == <<wpc, whistory, wargs, wstamp, overlapped>>
app1Vars == <<form1, session1, page1>>
app2Vars == <<form2, session2, page2>>

----------------------------------------------------------------------------
(* Bounds of the model *)

MaxYears == 2    \* largest cr_years tried
MaxLog == 2      \* most records the history file is grown to
MaxClock == 1    \* last second of the wall clock

----------------------------------------------------------------------------
(* Exact fractions *)

Abs(x) == IF x < 0 THEN -x ELSE x

RECURSIVE GCD(_, _)
GCD(a, b) == IF b = 0 THEN a ELSE GCD(b, a % b)

\* n/d with the common factor g taken out and the sign moved to the numerator
Reduced(n, d, g) ==
    IF d < 0 THEN <<(-n) \div g, (-d) \div g>> ELSE <<n \div g, d \div g>>

\* the fraction n/d in lowest terms with a positive denominator (d # 0)
Frac(n, d) == Reduced(n, d, GCD(Abs(n), Abs(d)))

Num(x) == Frac(x, 1)
Zero == Num(0)
One == Num(1)

IsZero(a) == a[1] = 0
\* a + b over the common denominator l
AddOver(a, b, l) == Frac(a[1] * (l \div a[2]) + b[1] * (l \div b[2]), l)
Add(a, b) == AddOver(a, b, (a[2] \div GCD(a[2], b[2])) * b[2])
Neg(a) == <<-a[1], a[2]>>
Sub(a, b) == Add(a, Neg(b))
\* x * y for fractions reduced crosswise, which keeps the products small
MulReduced(x, y) == <<x[1] * y[1], x[2] * y[2]>>
Mul(a, b) == MulReduced(Frac(a[1], b[2]), Frac(b[1], a[2]))
\* a / b for b # 0; the callers test IsZero(b) first, as Python raises there
Div(a, b) == Mul(a, Frac(b[2], b[1]))
Less(a, b) == a[1] * b[2] < b[1] * a[2]
LessEq(a, b) == a[1] * b[2] <= b[1] * a[2]

----------------------------------------------------------------------------
(* The four pricing stages.  A call either returns a value or raises. *)

Return(v) == [raised |-> "none", value |-> v]
Raise(e) == [raised |-> e, value |-> Zero]

\* the loop of calculate_price_with_cr: cr_rate after range(cr_years)
RECURSIVE CrRate(_, _)
CrRate(cr, cr_years) ==
    IF cr_years <= 0 THEN One
    ELSE Mul(CrRate(cr, cr_years - 1), Sub(One, Div(cr, Num(100))))

\* a / b as Python evaluates it
Divide(a, b) == IF IsZero(b) THEN Raise("ZeroDivisionError") ELSE Return(Div(a, b))

calculate_price_with_cr(base_price, cr, cr_years) ==
    Divide(base_price, CrRate(cr, cr_years))

\* variant: the buffer taken off the price instead of grossed up
calculate_price_with_bl_discount(price, bl) ==
    Return(Mul(price, Sub(One, Div(bl, Num(100)))))

calculate_price_with_bl(price, bl) ==
    Divide(price, Sub(One, Div(bl, Num(100))))

DailyInterest(annual_interest) == Div(Div(annual_interest, Num(365)), Num(100))
\* variant: a negative delay counted as no delay
DelayDaysClamped(payment_before, payment_after) ==
    IF payment_after < payment_before THEN 0 ELSE payment_after - payment_before

DelayDays(payment_before, payment_after) == payment_after - payment_before

calculate_finance_cost(price, annual_interest, payment_before, payment_after) ==
    Mul(Mul(price, DailyInterest(annual_interest)),
        Num(DelayDays(payment_before, payment_after)))

\* the loop of calculate_yearly_prices from `year` on, current_price in hand
RECURSIVE YearlyFrom(_, _, _, _)
YearlyFrom(current_price, cr, year, cr_years) ==
    IF year > cr_years THEN <<>>
    ELSE <<[year |-> year, price |-> current_price, reduction |-> cr]>>
         \o YearlyFrom(Mul(current_price, Sub(One, Div(cr, Num(100)))),
                       cr, year + 1, cr_years)

calculate_yearly_prices(initial_price, cr, cr_years) ==
    YearlyFrom(initial_price, cr, 1, cr_years)

----------------------------------------------------------------------------
(* The aggregator *)

NoResults ==
    [base_with_cr |-> Zero, base_with_bl |-> Zero, piece_finance_cost |-> Zero,
     final_price |-> Zero, yearly_prices |-> <<>>]

Returned(results) == [raised |-> "none", results |-> results]
Raised(e) == [raised |-> e, results |-> NoResults]
NoOutcome == Raised("not called")

FinalPrice(price_with_bl, finance_cost) == Add(price_with_bl, finance_cost)

\* variant: the projection started from the price before financing
ProjectionStartBl(price_with_bl, final_price) == price_with_bl

\* line 160: the price the yearly projection starts from
ProjectionStart(price_with_bl, final_price) == final_price

\* calculate_results, statement by statement; each operator takes the
\* locals assigned so far and runs the rest of the function

\* lines 160-168
ResultsDict(in, price_with_cr, price_with_bl, finance_cost, final_price) ==
    Returned(
        [base_with_cr |-> price_with_cr,
         base_with_bl |-> price_with_bl,
         piece_finance_cost |-> finance_cost,
         final_price |-> final_price,
         yearly_prices |->
             calculate_yearly_prices(ProjectionStart(price_with_bl, final_price),
                                     Num(in.cr), in.cr_years)])

\* line 159
AfterFinance(in, price_with_cr, price_with_bl, finance_cost) ==
    ResultsDict(in, price_with_cr, price_with_bl, finance_cost,
                FinalPrice(price_with_bl, finance_cost))

\* lines 157-158
AfterBl(in, price_with_cr, with_bl) ==
    IF with_bl.raised # "none" THEN Raised(with_bl.raised)
    ELSE AfterFinance(in, price_with_cr, with_bl.value,
                      calculate_finance_cost(with_bl.value, Num(in.annual_interest),
                                             in.payment_before, in.payment_after))

\* line 156
AfterCr(in, with_cr) ==
    IF with_cr.raised # "none" THEN Raised(with_cr.raised)
    ELSE AfterBl(in, with_cr.value, calculate_price_with_bl(with_cr.value, Num(in.bl)))

\* line 155 on
calculate_results(in) ==
    AfterCr(in, calculate_price_with_cr(Num(in.base_price), Num(in.cr), in.cr_years))

\* the rows of the increase table, in the order the code lists them
CrIncrease(results, in) == Sub(results.base_with_cr, Num(in.base_price))
BlIncrease(results, in) == Sub(results.base_with_bl, results.base_with_cr)
\* variant: the total measured from the price after CR
TotalIncreaseFromCr(results, in) == Sub(results.final_price, results.base_with_cr)

TotalIncrease(results, in) == Sub(results.final_price, Num(in.base_price))

create_analysis_df(scenario) ==
    <<[factor |-> "CR", amount |-> CrIncrease(scenario.results, scenario.inputs)],
      [factor |-> "BL", amount |-> BlIncrease(scenario.results, scenario.inputs)],
      [factor |-> "financing", amount |-> scenario.results.piece_finance_cost],
      [factor |-> "total", amount |-> TotalIncrease(scenario.results, scenario.inputs)]>>

NoAnalysis == <<>>

----------------------------------------------------------------------------
(* Inputs.  st.number_input sets no min_value or max_value, so a rate of   *)
(* 100 or more and a negative number of years can be entered.              *)

BasePrices == {-100, 0, 100}
CrRates == {0, 20, 50, 100, 200}
CrYears == -1 .. MaxYears
BlRates == {0, 20, 100}
PaymentDays == {60, 120}
InterestRates == {0, 5}

InputSpace ==
    [base_price : BasePrices, cr : CrRates, cr_years : CrYears, bl : BlRates,
     payment_before : PaymentDays, payment_after : PaymentDays,
     annual_interest : InterestRates]

MkInputs(b, c, y, l, pb, pa, ai) ==
    [base_price |-> b, cr |-> c, cr_years |-> y, bl |-> l,
     payment_before |-> pb, payment_after |-> pa, annual_interest |-> ai]

----------------------------------------------------------------------------
(* calculation_history.json.  json.dump writes each dict as an object: its *)
(* keys and values in insertion order; json.load builds the dicts back by  *)
(* key.  A JSON object is modelled as the sequence of its <<key, value>>   *)
(* members.                                                                *)

Member(obj, key) == obj[CHOOSE i \in 1 .. Len(obj) : obj[i][1] = key][2]
HasMember(obj, key) == \E i \in 1 .. Len(obj) : obj[i][1] = key

DumpInputs(in) ==
    <<<<"base_price", in.base_price>>, <<"cr", in.cr>>, <<"cr_years", in.cr_years>>,
      <<"bl", in.bl>>, <<"payment_before", in.payment_before>>,
      <<"payment_after", in.payment_after>>, <<"annual_interest", in.annual_interest>>>>

LoadInputs(obj) ==
    [base_price |-> Member(obj, "base_price"), cr |-> Member(obj, "cr"),
     cr_years |-> Member(obj, "cr_years"), bl |-> Member(obj, "bl"),
     payment_before |-> Member(obj, "payment_before"),
     payment_after |-> Member(obj, "payment_after"),
     annual_interest |-> Member(obj, "annual_interest")]

DumpYearly(e) == <<<<"year", e.year>>, <<"price", e.price>>, <<"reduction", e.reduction>>>>
LoadYearly(obj) ==
    [year |-> Member(obj, "year"), price |-> Member(obj, "price"),
     reduction |-> Member(obj, "reduction")]

DumpResults(r) ==
    <<<<"base_with_cr", r.base_with_cr>>, <<"base_with_bl", r.base_with_bl>>,
      <<"piece_finance_cost", r.piece_finance_cost>>, <<"final_price", r.final_price>>,
      <<"yearly_prices",
        [k \in 1 .. Len(r.yearly_prices) |-> DumpYearly(r.yearly_prices[k])]>>>>

LoadResults(obj) ==
    LET yearly == Member(obj, "yearly_prices")
    IN  [base_with_cr |-> Member(obj, "base_with_cr"),
         base_with_bl |-> Member(obj, "base_with_bl"),
         piece_finance_cost |-> Member(obj, "piece_finance_cost"),
         final_price |-> Member(obj, "final_price"),
         yearly_prices |-> [k \in 1 .. Len(yearly) |-> LoadYearly(yearly[k])]]

\* a record of the single-scenario app has no scenario_name member
DumpCalculation(c) ==
    IF "scenario_name" \in DOMAIN c
    THEN <<<<"timestamp", c.timestamp>>, <<"scenario_name", c.scenario_name>>,
           <<"inputs", DumpInputs(c.inputs)>>, <<"results", DumpResults(c.results)>>>>
    ELSE <<<<"timestamp", c.timestamp>>,
           <<"inputs", DumpInputs(c.inputs)>>, <<"results", DumpResults(c.results)>>>>

LoadCalculation(obj) ==
    IF HasMember(obj, "scenario_name")
    THEN [timestamp |-> Member(obj, "timestamp"),
          scenario_name |-> Member(obj, "scenario_name"),
          inputs |-> LoadInputs(Member(obj, "inputs")),
          results |-> LoadResults(Member(obj, "results"))]
    ELSE [timestamp |-> Member(obj, "timestamp"),
          inputs |-> LoadInputs(Member(obj, "inputs")),
          results |-> LoadResults(Member(obj, "results"))]

json_dump(history) == [k \in 1 .. Len(history) |-> DumpCalculation(history[k])]
json_load(text) == [k \in 1 .. Len(text) |-> LoadCalculation(text[k])]

NoFile == [exists |-> FALSE, text |-> <<>>]

load_saved_results(f) == IF f.exists THEN json_load(f.text) ELSE <<>>

\* variant: the file rewritten with the new record alone
WriteHistoryOnlyNew(history, calculation) ==
    [exists |-> TRUE, text |-> json_dump(<<calculation>>)]

\* variant: the new record put first instead of last
WriteHistoryPrepend(history, calculation) ==
    [exists |-> TRUE, text |-> json_dump(<<calculation>> \o history)]

\* history.append(calculation) and the rewrite of the whole file
WriteHistory(history, calculation) ==
    [exists |-> TRUE, text |-> json_dump(Append(history, calculation))]

Calculation(now, in, results) ==
    [timestamp |-> now, inputs |-> in, results |-> results]

Calculation2(now, scenario_name, in, results) ==
    [timestamp |-> now, scenario_name |-> scenario_name, inputs |-> in,
     results |-> results]

\* save_calculation of price_calculator.py: the file after the call
save_calculation(f, now, in, results) ==
    WriteHistory(load_saved_results(f), Calculation(now, in, results))

\* save_calculation of price_calculator2.py: the file after the call
save_calculation2(f, now, scenario_name, in, results) ==
    WriteHistory(load_saved_results(f), Calculation2(now, scenario_name, in, results))

\* datetime.now() read at a save: the clock has not gone back since the last read
Now == {t \in clock .. clock + 1 : t <= MaxClock}

----------------------------------------------------------------------------
(* The forms of the two apps.  The widgets' defaults (10000, 3.0, 4, 1.0,  *)
(* 60, 120, 5.0) are scaled down to numbers whose fractions stay small.    *)

DefaultInputs == MkInputs(100, 20, 2, 20, 60, 120, 5)
FullCutInputs == MkInputs(100, 100, 1, 20, 60, 120, 5)     \* a CR of 100 %
NoYearsInputs == MkInputs(100, 20, 0, 20, 60, 120, 5)      \* no CR year
EarlierPaymentInputs == MkInputs(100, 50, 1, 0, 120, 60, 5)

\* the values tried in the forms of both apps
AppInputs == {DefaultInputs, FullCutInputs, NoYearsInputs}

scenario1_name == "scenario 1"
scenario2_name == "scenario 2"

NoSession1 == [has |-> FALSE, inputs |-> DefaultInputs, results |-> NoResults]
NoScenario == [name |-> "", inputs |-> DefaultInputs, results |-> NoResults]
NoSession2 == [has |-> FALSE, scenario1 |-> NoScenario, scenario2 |-> NoScenario]

FirstPage1 == [exception |-> "none", buttons |-> FALSE, success |-> FALSE, shown |-> -1]
FirstPage2 == [exception |-> "none", save_button |-> FALSE, success |-> FALSE]

\* pd.DataFrame(yearly_prices)[column]: a frame built from an empty list has
\* no column, and the lookup raises KeyError
ColumnLookup(yearly_prices) == IF Len(yearly_prices) = 0 THEN "KeyError" ELSE "none"

----------------------------------------------------------------------------
(* price_calculator.py: one run of the script.  Streamlit reruns main()    *)
(* from the top on every widget event; a button reads True only in the run *)
(* its own press triggered.  An uncaught exception ends the run there.     *)

\* variant: the inputs stored before the prices are computed
SessionAfterCalculate1InputsFirst(sess, form, out) ==
    IF out.raised # "none" THEN [sess EXCEPT !.inputs = form]
    ELSE [has |-> TRUE, inputs |-> form, results |-> out.results]

\* lines 75-107: st.session_state after the calculate branch
SessionAfterCalculate1(sess, form, out) ==
    IF out.raised # "none" THEN sess
    ELSE [has |-> TRUE, inputs |-> form, results |-> out.results]

\* variant: the widgets' current values saved with the session's results
SavedInputs1FromForm(sess, form) == form

\* line 151: the inputs handed to save_calculation
SavedInputs1(sess, form) == sess.inputs

\* lines 149-163: the buttons under the tables; `shows` tells whether the run
\* gets there
Buttons1(form, exception, sess, shows, save_button, view_button, now) ==
    /\ form1' = form
    /\ session1' = sess
    /\ IF shows /\ save_button                               \* line 150
       THEN /\ file' = save_calculation(file, now, SavedInputs1(sess, form),
                                         sess.results)
            /\ clock' = now
       ELSE UNCHANGED <<file, clock>>
    /\ page1' = [exception |-> exception,
                 buttons |-> shows,
                 success |-> shows /\ save_button,
                 shown |-> IF shows /\ view_button            \* line 155
                           THEN Len(load_saved_results(file')) ELSE -1]

\* lines 109-147: the results display, which ends the run at line 129 when the
\* yearly table has no 'price' column
Display1(form, raised, sess, save_button, view_button, now) ==
    IF raised # "none"
    THEN Buttons1(form, raised, sess, FALSE, save_button, view_button, now)
    ELSE IF ~sess.has                                        \* line 110
    THEN Buttons1(form, "none", sess, FALSE, save_button, view_button, now)
    ELSE Buttons1(form, ColumnLookup(sess.results.yearly_prices), sess,
                  ColumnLookup(sess.results.yearly_prices) = "none",
                  save_button, view_button, now)

\* lines 75-107, then the rest
AfterCalculate1(form, out, save_button, view_button, now) ==
    Display1(form, out.raised, SessionAfterCalculate1(session1, form, out),
             save_button, view_button, now)

Main1(form, calculate_button, save_button, view_button, now) ==
    IF calculate_button
    THEN AfterCalculate1(form, calculate_results(form), save_button, view_button, now)
    ELSE Display1(form, "none", session1, save_button, view_button, now)

LogLen == Len(file.text)

\* The user changes widget values.  Every change reruns the script with no
\* button pressed; such a run touches neither the session nor the file, so
\* the changes that lead from one form to another are taken as one run.
Edit1(form) ==
    /\ form # form1
    /\ Main1(form, FALSE, FALSE, FALSE, clock)
    /\ event' = "edit1"
    /\ UNCHANGED <<app2Vars, calcVars, raceVars>>

PressCalculate1 ==
    /\ Main1(form1, TRUE, FALSE, FALSE, clock)
    /\ event' = "calculate1"
    /\ UNCHANGED <<app2Vars, calcVars, raceVars>>

PressSave1 ==
    /\ page1.buttons               \* the button was rendered by the last run
    /\ LogLen < MaxLog             \* bound of the model
    /\ \E now \in Now : Main1(form1, FALSE, TRUE, FALSE, now)
    /\ event' = "save1"
    /\ UNCHANGED <<app2Vars, calcVars, raceVars>>

PressView1 ==
    /\ page1.buttons
    /\ Main1(form1, FALSE, FALSE, TRUE, clock)
    /\ event' = "view1"
    /\ UNCHANGED <<app2Vars, calcVars, raceVars>>

----------------------------------------------------------------------------
(* price_calculator2.py: one run of the script (the comparison tab) *)

\* lines 226-239: st.session_state after the calculate branch
SessionAfterCalculate2(sess, forms, out1, out2) ==
    IF out1.raised # "none" \/ out2.raised # "none" THEN sess
    ELSE [has |-> TRUE,
          scenario1 |-> [name |-> scenario1_name, inputs |-> forms[1],
                         results |-> out1.results],
          scenario2 |-> [name |-> scenario2_name, inputs |-> forms[2],
                         results |-> out2.results]]

\* the exception that ends the calculate block before its save button, if
\* any: a calculation that raises (lines 226-227), or the chart's lookup of
\* the 'year' column of an empty yearly table (lines 97, 102, called at 247)
Raised2(out1, out2) ==
    IF out1.raised # "none" THEN out1.raised
    ELSE IF out2.raised # "none" THEN out2.raised
    ELSE IF ColumnLookup(out1.results.yearly_prices) # "none"
    THEN ColumnLookup(out1.results.yearly_prices)
    ELSE ColumnLookup(out2.results.yearly_prices)

\* lines 250-254, reached when nothing raised before
SaveBlock2(forms, out1, out2, exception, save_button, now1, now2) ==
    /\ IF exception = "none" /\ save_button                  \* line 251
       THEN /\ file' = save_calculation2(
                           save_calculation2(file, now1, scenario1_name, forms[1],
                                             out1.results),
                           now2, scenario2_name, forms[2], out2.results)
            /\ clock' = now2
       ELSE UNCHANGED <<file, clock>>
    /\ page2' = [exception |-> exception,
                 save_button |-> exception = "none",
                 success |-> exception = "none" /\ save_button]

\* lines 226-254: the block of `if st.button('계산하기')`, with the save
\* button of line 251 inside it
CalculateBlock2(forms, out1, out2, save_button, now1, now2) ==
    /\ form2' = forms
    /\ session2' = SessionAfterCalculate2(session2, forms, out1, out2)
    /\ SaveBlock2(forms, out1, out2, Raised2(out1, out2), save_button, now1, now2)

\* a run in which the calculate button reads False skips the block
Main2(forms, calculate_button, save_button, now1, now2) ==
    IF calculate_button
    THEN CalculateBlock2(forms, calculate_results(forms[1]), calculate_results(forms[2]),
                         save_button, now1, now2)
    ELSE /\ form2' = forms
         /\ page2' = [exception |-> "none", save_button |-> FALSE, success |-> FALSE]
         /\ UNCHANGED <<session2, file, clock>>

Edit2(k, form) ==
    /\ form # form2[k]
    /\ Main2([form2 EXCEPT ![k] = form], FALSE, FALSE, clock, clock)
    /\ event' = "edit2"
    /\ UNCHANGED <<app1Vars, calcVars, raceVars>>

PressCalculate2 ==
    /\ Main2(form2, TRUE, FALSE, clock, clock)
    /\ event' = "calculate2"
    /\ UNCHANGED <<app1Vars, calcVars, raceVars>>

PressSave2 ==
    /\ page2.save_button           \* the button was rendered by the last run
    /\ \E now1 \in Now : \E now2 \in {t \in now1 .. now1 + 1 : t <= MaxClock} :
           Main2(form2, FALSE, TRUE, now1, now2)
    /\ event' = "save2"
    /\ UNCHANGED <<app1Vars, calcVars, raceVars>>

----------------------------------------------------------------------------
(* Two sessions of the single-scenario app saving at the same time: each   *)
(* runs save_calculation, whose steps are the read of the file (line 16),  *)
(* the timestamp (line 19) and the rewrite of the file (lines 24-27).      *)

Writers == {1, 2}

WLoad(w) ==
    /\ wpc[w] = "idle"
    /\ whistory' = [whistory EXCEPT ![w] = load_saved_results(file)]
    /\ wpc' = [wpc EXCEPT ![w] = "loaded"]
    /\ overlapped' = (overlapped \/ \E v \in Writers \ {w} : wpc[v] \in {"loaded", "stamped"})
    /\ UNCHANGED <<file, clock, wargs, wstamp, calcVars, appVars, event>>

WStamp(w) ==
    /\ wpc[w] = "loaded"
    /\ \E now \in Now :
           /\ wstamp' = [wstamp EXCEPT ![w] = now]
           /\ clock' = now
    /\ wpc' = [wpc EXCEPT ![w] = "stamped"]
    /\ UNCHANGED <<file, whistory, wargs, overlapped, calcVars, appVars, event>>

WWrite(w) ==
    /\ wpc[w] = "stamped"
    /\ file' = WriteHistory(whistory[w],
                            Calculation(wstamp[w], wargs[w].inputs, wargs[w].results))
    /\ wpc' = [wpc EXCEPT ![w] = "done"]
    /\ UNCHANGED <<clock, whistory, wargs, wstamp, overlapped, calcVars, appVars, event>>

----------------------------------------------------------------------------
(* One call of calculate_results, then of create_analysis_df on what it    *)
(* returned.                                                               *)

CalculateResults ==
    /\ pc = "start"
    /\ outcome' = calculate_results(inputs)
    /\ pc' = IF outcome'.raised = "none" THEN "calculated" ELSE "raised"
    /\ UNCHANGED <<inputs, analysis, file, clock, appVars, raceVars, event>>

CreateAnalysis ==
    /\ pc = "calculated"
    /\ analysis' = create_analysis_df([inputs |-> inputs, results |-> outcome.results])
    /\ pc' = "analysed"
    /\ UNCHANGED <<inputs, outcome, file, clock, appVars, raceVars, event>>

----------------------------------------------------------------------------
(* Specifications *)

CalcIdle ==
    /\ pc = "idle"
    /\ inputs = DefaultInputs
    /\ outcome = NoOutcome
    /\ analysis = NoAnalysis

AppsFresh ==
    /\ form1 = DefaultInputs
    /\ session1 = NoSession1
    /\ page1 = FirstPage1
    /\ form2 = <<DefaultInputs, DefaultInputs>>
    /\ session2 = NoSession2
    /\ page2 = FirstPage2
    /\ event = "start"

NoArgs == [inputs |-> DefaultInputs, results |-> NoResults]

RaceIdle ==
    /\ wpc = [w \in Writers |-> "none"]
    /\ whistory = [w \in Writers |-> <<>>]
    /\ wargs = [w \in Writers |-> NoArgs]
    /\ wstamp = [w \in Writers |-> 0]
    /\ overlapped = FALSE

\* the two apps, each script run atomic, on a history file that starts missing
Init ==
    /\ file = NoFile
    /\ clock = 0
    /\ AppsFresh
    /\ CalcIdle
    /\ RaceIdle

Next ==
    \/ \E form \in AppInputs : Edit1(form)
    \/ PressCalculate1
    \/ PressSave1
    \/ PressView1
    \/ \E k \in {1, 2} : \E form \in AppInputs : Edit2(k, form)
    \/ PressCalculate2
    \/ PressSave2

Spec == Init /\ [][Next]_vars

\* the pricing pipeline on every input of InputSpace
InitCalc ==
    /\ pc = "start"
    /\ inputs \in InputSpace
    /\ outcome = NoOutcome
    /\ analysis = NoAnalysis
    /\ file = NoFile
    /\ clock = 0
    /\ AppsFresh
    /\ RaceIdle

NextCalc ==
    \/ CalculateResults
    \/ CreateAnalysis

SpecCalc == InitCalc /\ [][NextCalc]_vars

\* what a session can hold when its save button is pressed
Saveable ==
    {[inputs |-> in, results |-> calculate_results(in).results] :
        in \in {i \in AppInputs \cup {EarlierPaymentInputs} :
                  /\ calculate_results(i).raised = "none"
                  /\ ColumnLookup(calculate_results(i).results.yearly_prices) = "none"}}

\* two concurrent save_calculation calls on a file with zero or one record
InitRace ==
    /\ file \in {NoFile}
                \cup {save_calculation(NoFile, 0, a.inputs, a.results) : a \in Saveable}
    /\ clock = 0
    /\ wpc = [w \in Writers |-> "idle"]
    /\ whistory = [w \in Writers |-> <<>>]
    /\ wargs \in [Writers -> Saveable]
    /\ wstamp = [w \in Writers |-> 0]
    /\ overlapped = FALSE
    /\ AppsFresh
    /\ CalcIdle

NextRace ==
    \/ \E w \in Writers : WLoad(w)
    \/ \E w \in Writers : WStamp(w)
    \/ \E w \in Writers : WWrite(w)

SpecRace == InitRace /\ [][NextRace]_vars

----------------------------------------------------------------------------
(* Claims about the pricing pipeline, checked under SpecCalc *)

Called == pc # "start"
HasResults == pc \in {"calculated", "analysed"}
Res == outcome.results
Base == Num(inputs.base_price)
ZeroDivisor == (inputs.cr = 100 /\ inputs.cr_years >= 1) \/ inputs.bl = 100

\* C1: with cr_rate = 100 (and cr_years >= 1) or bl_rate = 100 the calculation
\* ends in InvalidRateError, raised before any price is computed, and never in
\* a raw division by zero.
C1_InvalidRateError ==
    (Called /\ ZeroDivisor) => outcome.raised = "InvalidRateError"

InRange ==
    /\ inputs.base_price >= 0
    /\ 0 < inputs.cr /\ inputs.cr < 100
    /\ 0 < inputs.bl /\ inputs.bl < 100
    /\ inputs.cr_years >= 0

\* C5: for base_price >= 0, cr_rate and bl_rate strictly between 0 and 100 and
\* cr_years >= 0, price_after_bl >= price_after_cr >= base_price and
\* final_price = price_after_bl + finance_cost.
C5_Monotone ==
    (HasResults /\ InRange) =>
        /\ LessEq(Base, Res.base_with_cr)
        /\ LessEq(Res.base_with_cr, Res.base_with_bl)
        /\ Res.final_price = Add(Res.base_with_bl, Res.piece_finance_cost)

C5_Witness ==
    /\ HasResults /\ InRange
    /\ inputs.cr_years >= 1
    /\ Less(Base, Res.base_with_cr)
    /\ Less(Res.base_with_cr, Res.base_with_bl)
    /\ ~IsZero(Res.piece_finance_cost)

\* C6: for cr_years >= 0 the yearly projection has exactly cr_years entries,
\* for the years 1, 2, ..., cr_years in that order; the first price is the
\* starting price, which in the pipeline is final_price; each later price is
\* the one before it times (1 - cr_rate/100); cr_years = 0 gives no entry.
C6_Yearly ==
    (HasResults /\ inputs.cr_years >= 0) =>
        /\ Len(Res.yearly_prices) = inputs.cr_years
        /\ \A k \in 1 .. Len(Res.yearly_prices) :
               /\ Res.yearly_prices[k].year = k
               /\ Res.yearly_prices[k].price =
                      IF k = 1 THEN Res.final_price
                      ELSE Mul(Res.yearly_prices[k - 1].price,
                               Sub(One, Frac(inputs.cr, 100)))

C6_Witness ==
    /\ HasResults
    /\ inputs.cr_years = 2 /\ inputs.cr = 20
    /\ Len(Res.yearly_prices) = 2
    /\ Res.final_price # Res.base_with_bl
    /\ Less(Res.yearly_prices[2].price, Res.yearly_prices[1].price)

Amount(k) == analysis[k].amount

\* C7: the increase table lists CR, BL, financing, total in that order, and
\* cr_increase + bl_increase + finance_cost = total_increase, with
\* cr_increase = price_after_cr - base_price, bl_increase = price_after_bl -
\* price_after_cr and total_increase = final_price - base_price.
C7_Breakdown ==
    pc = "analysed" =>
        /\ [k \in 1 .. Len(analysis) |-> analysis[k].factor]
               = <<"CR", "BL", "financing", "total">>
        /\ Amount(1) = Sub(Res.base_with_cr, Base)
        /\ Amount(2) = Sub(Res.base_with_bl, Res.base_with_cr)
        /\ Amount(3) = Res.piece_finance_cost
        /\ Amount(4) = Sub(Res.final_price, Base)
        /\ Add(Add(Amount(1), Amount(2)), Amount(3)) = Amount(4)

C7_Witness ==
    /\ pc = "analysed"
    /\ Less(Zero, Amount(1)) /\ Less(Zero, Amount(2)) /\ Less(Zero, Amount(3))
    /\ Less(Amount(1), Amount(4))

NegativeDelay == inputs.payment_after < inputs.payment_before

\* the inputs the data model of the specification allows
ValidInputs ==
    /\ inputs.base_price >= 0
    /\ 0 <= inputs.cr /\ inputs.cr < 100
    /\ 0 <= inputs.bl /\ inputs.bl < 100
    /\ inputs.cr_years >= 0
    /\ inputs.annual_interest >= 0

\* C8 as claimed: whenever payment_after < payment_before the finance cost is
\* negative and final_price < price_after_bl (stated here for the valid inputs
\* alone, where it already fails).
C8_NegativeDelayAlwaysCredit ==
    (HasResults /\ ValidInputs /\ NegativeDelay) =>
        /\ Less(Res.piece_finance_cost, Zero)
        /\ Less(Res.final_price, Res.base_with_bl)

\* C8 as amended: with payment_after < payment_before, a positive interest rate
\* and a positive price_after_bl, the finance cost is negative and final_price <
\* price_after_bl; in every case with payment_after < payment_before the cost is
\* price_after_bl * (annual_interest/365/100) * (payment_after - payment_before),
\* sign kept, and the negative delay by itself makes no call raise.
C8_SignedCredit ==
    /\ (HasResults /\ NegativeDelay) =>
           /\ Res.piece_finance_cost =
                  Mul(Mul(Res.base_with_bl, Frac(inputs.annual_interest, 36500)),
                      Num(inputs.payment_after - inputs.payment_before))
           /\ (inputs.annual_interest > 0 /\ Less(Zero, Res.base_with_bl)) =>
                  /\ Less(Res.piece_finance_cost, Zero)
                  /\ Less(Res.final_price, Res.base_with_bl)
    /\ (Called /\ NegativeDelay /\ ~ZeroDivisor) => outcome.raised = "none"

C8_Witness ==
    /\ HasResults /\ NegativeDelay
    /\ inputs.annual_interest > 0
    /\ Less(Zero, Res.base_with_bl)
    /\ Less(Res.piece_finance_cost, Zero)

----------------------------------------------------------------------------
(* Claims about the history file and the two apps, checked under Spec *)

Log == load_saved_results(file)
Whole(in, results) == calculate_results(in) = Returned(results)

\* C2: one save_calculation of a record r on a history log H leaves
\* load_saved_results returning H with r appended as its last element, every
\* earlier record unchanged and in place; a missing file counts as H = <<>>.
C2_SaveThenLoad ==
    [][event' = "save1" =>
          load_saved_results(file') =
              Append(load_saved_results(file),
                     Calculation(clock', session1.inputs, session1.results))]_vars

C2_Witness ==
    /\ event = "save1"
    /\ Len(Log) = 2
    /\ Log[1] # Log[2]
    /\ Log[2] = Calculation(clock, session1.inputs, session1.results)

\* C4: a calculation that raises leaves the history log and the session as
\* they were; whatever a run stores in a session, and whatever a save then
\* writes, is the inputs and the results of one calculation that returned.
C4_FailedCalculationLeavesNothing ==
    [][/\ (event' = "calculate1" /\ calculate_results(form1).raised # "none") =>
              (file' = file /\ session1' = session1)
       /\ (event' = "calculate2"
              /\ \E k \in {1, 2} : calculate_results(form2[k]).raised # "none") =>
              (file' = file /\ session2' = session2)
       /\ (session1' # session1) =>
              (session1'.has /\ Whole(session1'.inputs, session1'.results))
       /\ (session2' # session2) =>
              /\ session2'.has
              /\ Whole(session2'.scenario1.inputs, session2'.scenario1.results)
              /\ Whole(session2'.scenario2.inputs, session2'.scenario2.results)
       /\ (event' \in {"save1", "save2"} /\ file' # file) =>
              LET log == load_saved_results(file')
              IN  Whole(log[Len(log)].inputs, log[Len(log)].results)]_vars

C4_Witness ==
    /\ event = "calculate1"
    /\ page1.exception = "ZeroDivisionError"
    /\ session1.has
    /\ session1.inputs # form1
    /\ Len(Log) >= 1

\* C9: in the comparison app, pressing calculate and then save runs
\* save_calculation for both scenarios: the history log grows by two records,
\* scenario 1 then scenario 2.
C9_SavePersistsBoth ==
    [][event' = "save2" =>
          LET before == load_saved_results(file)
              after == load_saved_results(file')
          IN  /\ Len(after) = Len(before) + 2
              /\ SubSeq(after, 1, Len(before)) = before
              /\ after[Len(before) + 1].scenario_name = scenario1_name
              /\ after[Len(before) + 2].scenario_name = scenario2_name]_vars

\* C10: after any edits, calculate presses and save presses in the
\* single-scenario app, the results of every record in the history log are the
\* pipeline's output for that record's own inputs.
C10_RecordsSelfConsistent ==
    \A k \in 1 .. Len(Log) : Whole(Log[k].inputs, Log[k].results)

C10_Witness ==
    /\ event = "save1"
    /\ Len(Log) >= 1
    /\ Log[Len(Log)].inputs = session1.inputs
    /\ form1 # session1.inputs
    /\ calculate_results(form1).raised = "none"

----------------------------------------------------------------------------
(* The claim about concurrent saves, checked under SpecRace *)

AllDone == \A w \in Writers : wpc[w] = "done"
Written(w) == Calculation(wstamp[w], wargs[w].inputs, wargs[w].results)

\* C3: when both writers have read the file before either has written it, both
\* saves complete and the log holds only one of the two records; when the saves
\* do not overlap, the log holds both.
C3_LostUpdate ==
    AllDone =>
        IF overlapped
        THEN /\ whistory[1] = whistory[2]
             /\ \E w \in Writers : Log = Append(whistory[w], Written(w))
        ELSE \E w \in Writers : \E v \in Writers \ {w} :
                 /\ whistory[v] = Append(whistory[w], Written(w))
                 /\ Log = Append(whistory[v], Written(v))

C3_Witness ==
    /\ AllDone
    /\ overlapped
    /\ wargs[1] # wargs[2]
    /\ Len(Log) = Len(whistory[1]) + 1
    /\ Len(whistory[1]) = 1

====
